---- MODULE Spec2Model ----
(***************************************************************************)
(* A model of ts-pattern's runtime: the pattern combinators (optional,     *)
(* array, intersection, union, not, when, select), the matching algorithm  *)
(* that threads a selection callback through a pattern, and the expression *)
(* builder (match / with / when / otherwise / exhaustive / run).           *)
(***************************************************************************)
EXTENDS Integers, Sequences, FiniteSets, TLC

VARIABLES value, heap, builders, calls, outcome, created, pattern, input, result

vars == <<value, heap, builders, calls, outcome, created, pattern, input, result>>

(***************************************************************************)
(* JavaScript values.  Every kind of value has its own record shape.       *)
(***************************************************************************)
undefined == [t |-> "undefined"]
Str(s) == [t |-> "string", s |-> s]
Num(n) == [t |-> "number", n |-> n]
Arr(es) == [t |-> "array", e |-> es]
Obj(fs) == [t |-> "object", f |-> fs]

\* An object with no own keys, and the empty selections record `{}`.
NoKeys == << >>

\* symbols.anonymousSelectKey: the reserved key of an unnamed select().
anonymousSelectKey == "@ts-pattern/anonymous-select-key"

(***************************************************************************)
(* Patterns.  A literal pattern is a primitive value, an object pattern an *)
(* ordered list of key/sub-pattern fields, a tuple pattern a list of       *)
(* sub-patterns; the combinators build matcher objects.                    *)
(***************************************************************************)
Lit(v) == [k |-> "literal", v |-> v]
Field(key, p) == [key |-> key, p |-> p]
Shape(fs) == [k |-> "object", fs |-> fs]
Tuple(ps) == [k |-> "tuple", ps |-> ps]
\* A bare function handed over where a pattern is expected.
Fn(predicate) == [k |-> "function", fn |-> predicate]

optional(p) == [k |-> "optional", p |-> p]
array(p) == [k |-> "array", p |-> p]
intersection(ps) == [k |-> "and", ps |-> ps]
union(ps) == [k |-> "or", ps |-> ps]
not(p) == [k |-> "not", p |-> p]
when(predicate) == [k |-> "when", fn |-> predicate]
select(key) == [k |-> "select", key |-> key]

isUnknown(x) == TRUE
isNumber(x) == x.t = "number"
isString(x) == x.t = "string"
isNullish(x) == x = undefined

\* Calling a predicate function, named by the function it stands for.
predicate(fn, x) ==
    CASE fn = "isUnknown" -> isUnknown(x)
      [] fn = "isNumber" -> isNumber(x)
      [] fn = "isString" -> isString(x)
      [] fn = "isNullish" -> isNullish(x)

catchAll == when("isUnknown")
string == when("isString")
number == when("isNumber")
nullish == when("isNullish")

isMatcher(p) == p.k \in {"optional", "array", "and", "or", "not", "when", "select"}
isObject(x) == x.t \in {"object", "array"}

\* value[key]: undefined when the key is absent.
Get(x, key) ==
    IF x.t = "object" /\ key \in DOMAIN x.f THEN x.f[key] ELSE undefined

(***************************************************************************)
(* The selection callbacks.  A callback is named by what it does with a    *)
(* (key, value) pair: "assign" is `selections[key] = value`, "concat" is   *)
(* the array matcher's `(selections[key] || []).concat([value])`, "noop"   *)
(* is not's `() => {}`.                                                    *)
(***************************************************************************)
selector(mode, sel, key, v) ==
    CASE mode = "assign" -> (key :> v) @@ sel
      [] mode = "concat" ->
            (key :> Arr(Append(IF key \in DOMAIN sel THEN sel[key].e ELSE << >>, v)))
                @@ sel
      [] mode = "noop" -> sel

\* Object.keys(selections).forEach((key) => select(key, selections[key])):
\* the keys are distinct, so the order of the calls does not matter.
forward(mode, sel, selections) ==
    CASE mode = "noop" -> sel
      [] OTHER ->
            [key \in DOMAIN sel \cup DOMAIN selections |->
                IF key \in DOMAIN selections
                THEN selector(mode, sel, key, selections[key])[key]
                ELSE sel[key]]

\* keys.forEach((key) => selector(key, undefined)) on a fresh record.
seed(keys) == [key \in keys |-> undefined]

RECURSIVE matchPattern(_, _, _, _)
RECURSIVE matcherMatch(_, _)
RECURSIVE every(_, _, _, _)
RECURSIVE some(_, _, _, _)
RECURSIVE everyRest(_, _, _, _)
RECURSIVE someRest(_, _, _, _)
RECURSIVE getSelectionKeys(_)

\* pairs[i..] all match, left to right, stopping at the first failure; the
\* callback's writes made up to that point stay in sel.
every(pairs, i, mode, sel) ==
    IF i > Len(pairs) THEN [matched |-> TRUE, sel |-> sel]
    ELSE everyRest(matchPattern(pairs[i].p, pairs[i].v, mode, sel), pairs, i, mode)

\* r is what pairs[i] gave.
everyRest(r, pairs, i, mode) ==
    IF r.matched THEN every(pairs, i + 1, mode, r.sel)
    ELSE [matched |-> FALSE, sel |-> r.sel]

\* some pair of pairs[i..] matches, left to right, stopping at the first
\* success.
some(pairs, i, mode, sel) ==
    IF i > Len(pairs) THEN [matched |-> FALSE, sel |-> sel]
    ELSE someRest(matchPattern(pairs[i].p, pairs[i].v, mode, sel), pairs, i, mode)

\* r is what pairs[i] gave.
someRest(r, pairs, i, mode) ==
    IF r.matched THEN [matched |-> TRUE, sel |-> r.sel]
    ELSE some(pairs, i + 1, mode, r.sel)

\* Every listed pattern against the same value.
against(ps, v) == [i \in 1..Len(ps) |-> [p |-> ps[i], v |-> v]]

getSelectionKeys(p) ==
    CASE p.k = "optional" -> getSelectionKeys(p.p)
      [] p.k = "array" -> getSelectionKeys(p.p)
      [] p.k \in {"and", "or"} ->
            UNION {getSelectionKeys(p.ps[i]) : i \in 1..Len(p.ps)}
      [] p.k = "not" -> {}
      [] p.k = "when" -> {}
      [] p.k = "select" -> {p.key}
      [] p.k = "tuple" -> UNION {getSelectionKeys(p.ps[i]) : i \in 1..Len(p.ps)}
      [] p.k = "object" -> UNION {getSelectionKeys(p.fs[i].p) : i \in 1..Len(p.fs)}
      [] OTHER -> {}

\* What a matcher returns, from the outcome r of the test it ran with its own
\* selections record.
returned(r) == [matched |-> r.matched, selections |-> r.sel]

optionalMatch(p, v) ==
    IF v = undefined
    THEN [matched |-> TRUE, selections |-> seed(getSelectionKeys(p.p))]
    ELSE returned(matchPattern(p.p, v, "assign", NoKeys))

arrayMatch(p, v) ==
    IF v.t # "array" THEN [matched |-> FALSE, selections |-> NoKeys]
    ELSE returned(every([i \in 1..Len(v.e) |-> [p |-> p.p, v |-> v.e[i]]],
                        1, "concat", NoKeys))

Reverse(ps) == [i \in 1..Len(ps) |-> ps[Len(ps) + 1 - i]]

\* A merge in which the first listed pattern's capture wins.
intersectionMatchFirstWins(p, v) ==
    returned(every(against(Reverse(p.ps), v), 1, "assign", NoKeys))

intersectionMatch(p, v) ==
    returned(every(against(p.ps, v), 1, "assign", NoKeys))

unionMatch(p, v) ==
    returned(some(against(p.ps, v), 1, "assign", seed(getSelectionKeys(p))))

notMatch(p, v) ==
    [matched |-> ~matchPattern(p.p, v, "noop", NoKeys).matched,
     selections |-> NoKeys]

whenMatch(p, v) == [matched |-> predicate(p.fn, v), selections |-> NoKeys]

selectMatch(p, v) == [matched |-> TRUE, selections |-> (p.key :> v)]

\* pattern[symbols.matcher]().match(value)
matcherMatch(p, v) ==
    CASE p.k = "optional" -> optionalMatch(p, v)
      [] p.k = "array" -> arrayMatch(p, v)
      [] p.k = "and" -> intersectionMatch(p, v)
      [] p.k = "or" -> unionMatch(p, v)
      [] p.k = "not" -> notMatch(p, v)
      [] p.k = "when" -> whenMatch(p, v)
      [] p.k = "select" -> selectMatch(p, v)

\* The selections of a matcher's result r go through the callback only when
\* r.matched.
forwarded(r, mode, sel) ==
    [matched |-> r.matched,
     sel |-> IF r.matched THEN forward(mode, sel, r.selections) ELSE sel]

matchPattern(p, v, mode, sel) ==
    CASE isMatcher(p) -> forwarded(matcherMatch(p, v), mode, sel)
      [] p.k = "object" ->
            IF ~isObject(v) THEN [matched |-> FALSE, sel |-> sel]
            ELSE every([i \in 1..Len(p.fs) |->
                            [p |-> p.fs[i].p, v |-> Get(v, p.fs[i].key)]],
                       1, mode, sel)
      [] p.k = "tuple" ->
            IF v.t # "array" \/ Len(v.e) # Len(p.ps)
            THEN [matched |-> FALSE, sel |-> sel]
            ELSE every([i \in 1..Len(p.ps) |-> [p |-> p.ps[i], v |-> v.e[i]]],
                       1, mode, sel)
      [] p.k = "literal" -> [matched |-> v = p.v, sel |-> sel]
      \* Object.is(value, pattern) for a function: no value here is one.
      [] OTHER -> [matched |-> FALSE, sel |-> sel]

(***************************************************************************)
(* The expression builder.  heap holds the case entries ever created, each *)
(* with the `selected` record its closures share; a builder is the ordered *)
(* list of the heap entries it carries.  A handler is named by the entry   *)
(* that holds it, otherwise's handler by 0.                                *)
(***************************************************************************)
MaxCases == 2

\* A with that takes a function before the handler for a guard whatever the
\* number of arguments.
withArgsAnyArity(args) ==
    IF Len(args) >= 2 /\ args[Len(args)].k = "function"
    THEN [patterns |-> SubSeq(args, 1, Len(args) - 1),
          predicates |-> <<args[Len(args)].fn>>]
    ELSE [patterns |-> args, predicates |-> << >>]

\* with's reading of its arguments before the handler: a guard is taken
\* only from a call of exactly three arguments whose second is a function.
withArgs(args) ==
    IF Len(args) + 1 = 3 /\ args[2].k = "function"
    THEN [patterns |-> <<args[1]>>, predicates |-> <<args[2].fn>>]
    ELSE [patterns |-> args, predicates |-> << >>]

entryOf(parsed, args, handler) ==
    [kind |-> "with", args |-> args, patterns |-> parsed.patterns,
     predicates |-> parsed.predicates, handler |-> handler,
     selected |-> NoKeys]

withEntry(args, handler) == entryOf(withArgs(args), args, handler)

whenEntry(fn, handler) ==
    [kind |-> "when", args |-> << >>, patterns |-> << >>, predicates |-> <<fn>>,
     handler |-> handler, selected |-> NoKeys]

otherwiseEntry ==
    [kind |-> "otherwise", args |-> << >>, patterns |-> << >>,
     predicates |-> << >>, handler |-> 0, selected |-> NoKeys]

\* The with case's test; its callback writes into the entry's `selected`.
guarded(r, predicates, v) ==
    [matched |-> r.matched /\ \A i \in 1..Len(predicates) :
                                  predicate(predicates[i], v),
     selected |-> r.sel]

doesMatch(entry, v) ==
    guarded(some(against(entry.patterns, v), 1, "assign", entry.selected),
            entry.predicates, v)

test(entry, v) ==
    CASE entry.kind = "with" -> doesMatch(entry, v)
      [] entry.kind = "when" ->
            [matched |-> predicate(entry.predicates[1], v),
             selected |-> entry.selected]
      [] entry.kind = "otherwise" ->
            [matched |-> TRUE, selected |-> entry.selected]

\* A select that hands over the anonymous capture only when it is alone.
caseSelectRecordFirst(entry, v) ==
    IF entry.kind = "with" /\ DOMAIN entry.selected # {}
    THEN IF DOMAIN entry.selected = {anonymousSelectKey}
         THEN entry.selected[anonymousSelectKey]
         ELSE Obj(entry.selected)
    ELSE v

\* The entry's `select`: what the handler gets as its first argument.
caseSelect(entry, v) ==
    IF entry.kind = "with"
    THEN IF DOMAIN entry.selected # {}
         THEN IF anonymousSelectKey \in DOMAIN entry.selected
              THEN entry.selected[anonymousSelectKey]
              ELSE Obj(entry.selected)
         ELSE v
    ELSE v

RECURSIVE find(_, _, _, _)
RECURSIVE tested(_, _, _, _, _)
RECURSIVE findLast(_, _, _, _)

\* f is what the cases after cases[i] gave.
orThis(f, cases, i, hp, v) ==
    IF f.entry # 0 THEN f
    ELSE IF test(hp[cases[i]], v).matched
         THEN [entry |-> cases[i],
               heap |-> [hp EXCEPT ![cases[i]].selected =
                                       test(hp[cases[i]], v).selected]]
         ELSE [entry |-> 0, heap |-> hp]

\* A find that prefers the later entries.
findLast(cases, i, hp, v) ==
    IF i > Len(cases) THEN [entry |-> 0, heap |-> hp]
    ELSE orThis(findLast(cases, i + 1, hp, v), cases, i, hp, v)

\* cases.find(({ test }) => test(value)) from position i on: the entry
\* found (0 when none is) and the heap after the tests that ran.
find(cases, i, hp, v) ==
    IF i > Len(cases) THEN [entry |-> 0, heap |-> hp]
    ELSE tested(test(hp[cases[i]], v), cases, i, hp, v)

\* r is what the test of cases[i] gave.
tested(r, cases, i, hp, v) ==
    IF r.matched
    THEN [entry |-> cases[i], heap |-> [hp EXCEPT ![cases[i]].selected = r.selected]]
    ELSE find(cases, i + 1, [hp EXCEPT ![cases[i]].selected = r.selected], v)

\* entry.handler(entry.select(value), value)
call(entry, v) ==
    [handler |-> entry.handler, arg1 |-> caseSelect(entry, v), arg2 |-> v]

\* A run that returns nothing instead of throwing.
resolveQuietly(f, v) ==
    IF f.entry = 0
    THEN [status |-> "returned", calls |-> << >>, heap |-> f.heap]
    ELSE [status |-> "returned", calls |-> <<call(f.heap[f.entry], v)>>,
          heap |-> f.heap]

\* f is what find gave: no entry is the "Pattern matching error".
resolve(f, v) ==
    IF f.entry = 0
    THEN [status |-> "Error", calls |-> << >>, heap |-> f.heap]
    ELSE [status |-> "returned", calls |-> <<call(f.heap[f.entry], v)>>,
          heap |-> f.heap]

run(cases, hp, v) == resolve(find(cases, 1, hp, v), v)

\* A push onto the case list of the builder the call was made on.
concatInPlace(bs, b, entry) ==
    Append([bs EXCEPT ![b] = Append(bs[b], entry)], Append(bs[b], entry))

\* builder(value, cases.concat([entry])): a new builder beside the old ones.
concat(bs, b, entry) == Append(bs, Append(bs[b], entry))

A == Str("A")
One == Num(1)
Yes == Str("yes")
No == Str("no")
anon == select(anonymousSelectKey)

\* The subject values match is called on.
Subjects == {A, Obj("a" :> One @@ "b" :> Yes)}

\* The argument lists with is called with (the handler left out).
WithCalls ==
    << <<Lit(A)>>,
       <<catchAll>>,
       <<anon>>,
       <<Shape(<<Field("a", select("x"))>>)>>,
       <<Shape(<<Field("a", anon), Field("b", select("y"))>>)>>,
       <<Shape(<<Field("a", select("x")), Field("b", Lit(No))>>),
         Shape(<<Field("b", Lit(Yes))>>)>>,
       <<select("x"), Fn("isString")>>,
       <<Lit(One), catchAll, Fn("isString")>> >>

\* The predicates when is called with.
WhenCalls == {"isString"}

NoOutcome == [op |-> "none", b |-> 0, status |-> "none"]

\* What resolving a builder that carries `cases` gives on heap hp and subject
\* v: by run/exhaustive, and by otherwise.
Outcome(r) == [status |-> r.status, calls |-> r.calls]
Resolution(cases, hp, v) ==
    <<Outcome(run(cases, hp, v)),
      Outcome(run(Append(cases, Len(hp) + 1), Append(hp, otherwiseEntry), v))>>

\* History: a builder as it was when the call that made it returned.
Created(cases, hp, v) == [cases |-> cases, resolution |-> Resolution(cases, hp, v)]

\* match(value): a builder with no case.
Init ==
    /\ value \in Subjects
    /\ heap = << >>
    /\ builders = << << >> >>
    /\ calls = << >>
    /\ outcome = NoOutcome
    /\ created = <<Created(<< >>, << >>, value)>>
    /\ pattern = undefined
    /\ input = undefined
    /\ result = [done |-> FALSE, matched |-> FALSE, sel |-> << >>]

With(b, args) ==
    /\ Len(heap) < MaxCases
    /\ heap' = Append(heap, withEntry(args, Len(heap) + 1))
    /\ builders' = concat(builders, b, Len(heap) + 1)
    /\ created' = Append(created, Created(builders'[Len(builders')], heap', value))
    /\ UNCHANGED <<value, calls, outcome, pattern, input, result>>

When(b, fn) ==
    /\ Len(heap) < MaxCases
    /\ heap' = Append(heap, whenEntry(fn, Len(heap) + 1))
    /\ builders' = concat(builders, b, Len(heap) + 1)
    /\ created' = Append(created, Created(builders'[Len(builders')], heap', value))
    /\ UNCHANGED <<value, calls, outcome, pattern, input, result>>

\* The state after a resolution r of builder b by op; the entries beyond the
\* heap's length are the call's own.
Resolved(r, op, b) ==
    /\ heap' = SubSeq(r.heap, 1, Len(heap))
    /\ calls' = r.calls
    /\ outcome' = [op |-> op, b |-> b, status |-> r.status]
    /\ UNCHANGED <<value, builders, created, pattern, input, result>>

\* The entry otherwise adds lives only for the call.
Otherwise(b) ==
    Resolved(run(Append(builders[b], Len(heap) + 1),
                 Append(heap, otherwiseEntry), value), "otherwise", b)

Exhaustive(b) == Resolved(run(builders[b], heap, value), "exhaustive", b)

Run(b) == Resolved(run(builders[b], heap, value), "run", b)

Next ==
    \/ \E b \in DOMAIN builders : \E i \in DOMAIN WithCalls : With(b, WithCalls[i])
    \/ \E b \in DOMAIN builders : \E fn \in WhenCalls : When(b, fn)
    \/ \E b \in DOMAIN builders : Otherwise(b)
    \/ \E b \in DOMAIN builders : Exhaustive(b)
    \/ \E b \in DOMAIN builders : Run(b)

Spec == Init /\ [][Next]_vars

(***************************************************************************)
(* The matching algorithm on its own: a pattern and an input are drawn,    *)
(* and matchPattern is called on them with with's callback and an empty    *)
(* record.                                                                 *)
(***************************************************************************)
MaxArrLen == 2

O1 == Obj("a" :> A @@ "b" :> One)
O2 == Obj("a" :> A)

Elems == {A, One, O1, O2, Arr(<< >>), Arr(<<A>>)}

Inputs ==
    {undefined} \cup Elems
        \cup {Arr(es) : es \in UNION {[1..n -> Elems] : n \in 0..MaxArrLen}}

Atoms == {Lit(A), Lit(One), anon, select("x"), string}

Shapes ==
    {Shape(<<Field("a", p), Field("b", q)>>) :
        p \in {select("x"), anon, Lit(A)},
        q \in {Lit(One), select("y"), optional(select("y"))}}

Subs ==
    Atoms \cup Shapes
        \cup {array(select("x")), array(anon), optional(select("x")),
              not(select("x")), Tuple(<<select("x"), Lit(A)>>),
              union(<<Shape(<<Field("a", select("x")), Field("b", Lit(One))>>),
                      select("y")>>)}

Patterns ==
    Subs
        \cup {union(<<p, q>>) : p \in Subs, q \in Subs}
        \cup {intersection(<<p, q>>) : p \in Subs, q \in Subs}
        \cup {union(<<p, q, r>>) : p \in Atoms, q \in Atoms, r \in Atoms}
        \cup {intersection(<<p, q, r>>) : p \in Atoms, q \in Atoms, r \in Atoms}
        \cup {array(p) : p \in Subs}
        \cup {array(array(p)) : p \in Atoms}
        \cup {optional(p) : p \in Subs}
        \cup {not(p) : p \in Subs}

NoResult == [done |-> FALSE, matched |-> FALSE, sel |-> NoKeys]

PatternInit ==
    /\ pattern \in Patterns
    /\ input \in Inputs
    /\ result = NoResult
    /\ value = undefined
    /\ heap = << >>
    /\ builders = << << >> >>
    /\ calls = << >>
    /\ outcome = NoOutcome
    /\ created = << >>

Matched(r) == [done |-> TRUE, matched |-> r.matched, sel |-> r.sel]

MatchPattern ==
    /\ ~result.done
    /\ result' = Matched(matchPattern(pattern, input, "assign", NoKeys))
    /\ UNCHANGED <<value, heap, builders, calls, outcome, created, pattern, input>>

PatternNext == MatchPattern

PatternSpec == PatternInit /\ [][PatternNext]_vars

(***************************************************************************)
(* Properties.                                                             *)
(***************************************************************************)
\* Whether p matches v, and what it hands to with's callback from an empty
\* record, when tested on its own.
Matches(p, v) == matchPattern(p, v, "assign", NoKeys).matched
Captures(p, v) == matchPattern(p, v, "assign", NoKeys).sel

Min(S) == CHOOSE i \in S : \A j \in S : i <= j
Max(S) == CHOOSE i \in S : \A j \in S : j <= i

\* The positions of builder b's cases whose test succeeds on the subject.
Matching(b) ==
    {i \in 1..Len(builders[b]) : test(heap[builders[b][i]], value).matched}

\* The entry of builder b's first case whose test succeeds.
Winner(b) == builders[b][Min(Matching(b))]

IsPrefix(s, t) == Len(s) <= Len(t) /\ SubSeq(t, 1, Len(s)) = s

\* C1. First match wins: a resolution (run, exhaustive or otherwise) of a
\* builder invokes at most one handler; when some case's test succeeds on the
\* subject it invokes exactly the handler of the lowest-index such case, and
\* otherwise's own handler is invoked only when no case's test succeeds.
FirstMatchWins ==
    outcome.op # "none" =>
        /\ Len(calls) <= 1
        /\ Matching(outcome.b) # {} =>
              /\ Len(calls) = 1
              /\ calls[1].handler = heap[Winner(outcome.b)].handler
        /\ (Matching(outcome.b) = {} /\ outcome.op = "otherwise") =>
              /\ Len(calls) = 1
              /\ calls[1].handler = 0

\* A resolution in which two cases match and the first one's handler ran.
FirstMatchWinsWitness ==
    /\ outcome.op # "none"
    /\ Cardinality(Matching(outcome.b)) >= 2
    /\ Len(calls) = 1
    /\ calls[1].handler = builders[outcome.b][1]
    /\ Max(Matching(outcome.b)) > 1

\* C2. exhaustive and run raise the error exactly when no case's test
\* succeeds, and then no handler is invoked; otherwise never raises it and
\* invokes its handler, with the whole subject, exactly when no case matched.
ErrorOnlyOnExhaustion ==
    /\ outcome.op \in {"run", "exhaustive"} =>
          /\ (outcome.status = "Error") = (Matching(outcome.b) = {})
          /\ outcome.status = "Error" => calls = << >>
    /\ outcome.op = "otherwise" =>
          /\ outcome.status = "returned"
          /\ (Matching(outcome.b) = {}) =
                (calls = <<[handler |-> 0, arg1 |-> value, arg2 |-> value]>>)

\* exhaustive or run failed on a builder that carries cases.
ErrorOnlyOnExhaustionWitness ==
    /\ outcome.op \in {"run", "exhaustive"}
    /\ outcome.status = "Error"
    /\ Len(builders[outcome.b]) >= 1

\* C3. Builder persistence: whatever calls were made since a builder was
\* returned, on it or on any other builder, its case list is the one it was
\* returned with, and resolving it selects the same case and hands its
\* handler the same arguments as resolving it then.
BuilderPersistence ==
    \A b \in DOMAIN builders :
        /\ builders[b] = created[b].cases
        /\ Resolution(builders[b], heap, value) = created[b].resolution

\* A derived builder was resolved, and the test it ran wrote into the
\* `selected` record of a case it shares with the builder it came from.
BuilderPersistenceWitness ==
    /\ outcome.op # "none"
    /\ \E b \in DOMAIN builders :
          /\ b # outcome.b
          /\ Len(builders[b]) >= 1
          /\ IsPrefix(builders[b], builders[outcome.b])
          /\ heap[builders[b][1]].selected # NoKeys

\* The with case whose handler the last resolution invoked.
WithWon ==
    /\ outcome.status = "returned"
    /\ calls[1].handler # 0
    /\ heap[calls[1].handler].kind = "with"

Collected == heap[calls[1].handler].selected

\* C4 as stated: the winning with case's handler gets the anonymous capture
\* only when it is the only capture collected, the captures record when any
\* other capture was collected, the subject when none was; and the subject
\* as its second argument.
HandlerArgumentAsStated ==
    WithWon =>
        /\ calls[1].arg2 = value
        /\ calls[1].arg1 =
              IF DOMAIN Collected = {anonymousSelectKey}
              THEN Collected[anonymousSelectKey]
              ELSE IF DOMAIN Collected # {} THEN Obj(Collected) ELSE value

\* C4 amended: the handler gets the anonymous capture whenever the anonymous
\* key is among the captures collected, named captures or not; else the
\* captures record when any was collected; else the subject.
HandlerArgument ==
    WithWon =>
        /\ calls[1].arg2 = value
        /\ calls[1].arg1 =
              IF anonymousSelectKey \in DOMAIN Collected
              THEN Collected[anonymousSelectKey]
              ELSE IF DOMAIN Collected # {} THEN Obj(Collected) ELSE value

\* A with case won having collected the anonymous key and a named one.
HandlerArgumentWitness ==
    /\ WithWon
    /\ anonymousSelectKey \in DOMAIN Collected
    /\ DOMAIN Collected # {anonymousSelectKey}

\* The with entries made by a call whose argument before the handler is a
\* function, after k >= 1 other arguments.
GuardCalls ==
    {c \in DOMAIN heap :
        /\ heap[c].kind = "with"
        /\ Len(heap[c].args) >= 2
        /\ heap[c].args[Len(heap[c].args)].k = "function"}

\* C5 as stated: whatever k is, the function is a guard.
GuardOfWithAsStated ==
    \A c \in GuardCalls :
        test(heap[c], value).matched =
            /\ \E i \in 1..(Len(heap[c].args) - 1) :
                    Matches(heap[c].args[i], value)
            /\ predicate(heap[c].args[Len(heap[c].args)].fn, value)

\* C5 amended: the function is a guard when it follows exactly one pattern;
\* after two or more patterns it is one more pattern of the list.
GuardOfWith ==
    \A c \in GuardCalls :
        test(heap[c], value).matched =
            IF Len(heap[c].args) = 2
            THEN /\ Matches(heap[c].args[1], value)
                 /\ predicate(heap[c].args[2].fn, value)
            ELSE \E i \in 1..Len(heap[c].args) : Matches(heap[c].args[i], value)

\* A resolution failed because the guard of a with(p, g, handler) case said
\* no to a subject that p matches.
GuardOfWithWitness ==
    /\ outcome.status = "Error"
    /\ \E i \in 1..Len(builders[outcome.b]) :
          /\ builders[outcome.b][i] \in GuardCalls
          /\ Len(heap[builders[outcome.b][i]].args) = 2
          /\ Matches(heap[builders[outcome.b][i]].args[1], value)

\* C9. The captures the handler of a winning with(p1, ..., pk, handler) gets
\* are those of the first listed pattern that matches, and nothing else.
CapturesOfMatchingPattern ==
    (WithWon /\ heap[calls[1].handler].predicates = << >>) =>
        calls[1].arg1 =
            caseSelect(
                [heap[calls[1].handler] EXCEPT !.selected =
                    Captures(
                        heap[calls[1].handler].patterns[
                            Min({i \in 1..Len(heap[calls[1].handler].patterns) :
                                    Matches(heap[calls[1].handler].patterns[i],
                                            value)})],
                        value)],
                value)

\* The listed patterns' own results on the input.
Branches == {i \in 1..Len(pattern.ps) : Matches(pattern.ps[i], input)}
Taken == pattern.ps[Min(Branches)]

\* C6. union matches iff some listed pattern does; on a match every static
\* selection key is present, the keys the first matching branch captures hold
\* its captures, and every other key holds undefined.
UnionDefaultFill ==
    (result.done /\ pattern.k = "or") =>
        /\ result.matched = (Branches # {})
        /\ result.matched =>
              /\ getSelectionKeys(pattern) \subseteq DOMAIN result.sel
              /\ \A key \in DOMAIN Captures(Taken, input) :
                    result.sel[key] = Captures(Taken, input)[key]
              /\ \A key \in getSelectionKeys(pattern) \ DOMAIN Captures(Taken, input) :
                    result.sel[key] = undefined

\* C7. array(p) matches iff the input is an array whose elements all match
\* p; on a match every capture key under p holds a sequence as long as the
\* array whose i-th entry is what p captured from the i-th element.
ArrayCaptureShape ==
    (result.done /\ pattern.k = "array") =>
        /\ result.matched =
              /\ input.t = "array"
              /\ \A i \in 1..Len(input.e) : Matches(pattern.p, input.e[i])
        /\ result.matched =>
              \A key \in getSelectionKeys(pattern.p) :
                  /\ key \in DOMAIN result.sel
                  /\ result.sel[key].t = "array"
                  /\ Len(result.sel[key].e) = Len(input.e)
                  /\ \A i \in 1..Len(input.e) :
                        /\ key \in DOMAIN Captures(pattern.p, input.e[i])
                        /\ result.sel[key].e[i] = Captures(pattern.p, input.e[i])[key]

\* C8. array(p) matches the empty array with every capture key under p
\* present and bound to the empty sequence.
EmptyArrayKeys ==
    (result.done /\ pattern.k = "array" /\ input = Arr(<< >>)) =>
        /\ result.matched
        /\ \A key \in getSelectionKeys(pattern.p) :
              /\ key \in DOMAIN result.sel
              /\ result.sel[key] = Arr(<< >>)

\* The listed patterns that capture key on the input.
Capturing(key) ==
    {i \in 1..Len(pattern.ps) : key \in DOMAIN Captures(pattern.ps[i], input)}

\* C10. intersection matches iff every listed pattern does; on a match its
\* selections are the listed patterns' captures merged, a key holding what
\* the last listed pattern that captures it captured; when a listed pattern
\* fails nothing reaches the enclosing match.
IntersectionLastWriteWins ==
    (result.done /\ pattern.k = "and") =>
        /\ result.matched = (Branches = 1..Len(pattern.ps))
        /\ result.matched =>
              /\ DOMAIN result.sel =
                    UNION {DOMAIN Captures(pattern.ps[i], input) :
                              i \in 1..Len(pattern.ps)}
              /\ \A key \in DOMAIN result.sel :
                    result.sel[key] =
                        Captures(pattern.ps[Max(Capturing(key))], input)[key]
        /\ ~result.matched => result.sel = NoKeys

\* An intersection matched in which two listed patterns captured different
\* values under one key.
IntersectionLastWriteWinsWitness ==
    /\ result.done
    /\ pattern.k = "and"
    /\ result.matched
    /\ \E key \in DOMAIN result.sel :
          /\ Cardinality(Capturing(key)) >= 2
          /\ Captures(pattern.ps[Min(Capturing(key))], input)[key]
                # Captures(pattern.ps[Max(Capturing(key))], input)[key]
====
